---- MODULE Spec2Model ----
(***************************************************************************)
(* Purchase arbitration of the pet-order service over two pet-store        *)
(* inventories.                                                            *)
(*                                                                         *)
(* Each pet-store is one uvicorn process: a request handler runs on the    *)
(* event loop from one `await` to the next without interleaving, so a      *)
(* handler with no `await` in it (GET, DELETE) is one atomic step, and a   *)
(* handler that awaits (create_pet with a picture-url) is two.  The        *)
(* pet-order service awaits every HTTP call, so each call of a purchase    *)
(* is a step of its own and purchases interleave between calls.            *)
(*                                                                         *)
(* GET /transactions is a handler without an `await`: one atomic step.     *)
(*                                                                         *)
(* Of the owner's requests to a pet-store, POST /pet-types awaits the      *)
(* Ninja API between its existence check and its insert and is two steps;  *)
(* DELETE /pet-types/{id} and a PUT of a pet without a picture-url have no *)
(* `await` and are one step each.                                          *)
(*                                                                         *)
(* Optional values (Python None) are sequences of length 0 or 1.           *)
(* Picture files are left out: no step of the arbitration reads them.      *)
(***************************************************************************)
EXTENDS Integers, Sequences, FiniteSets, TLC

\* ------------------------------------------------------------------ bounds

\* number of pets the two stores are stocked with, over both stores
MaxPets == 2
\* number of pet types store 1 lists, in the specification of the type lookup
MaxTypes == 2

\* ------------------------------------------------------------- input sets

Stores == {1, 2}
Purchasers == {"Ana", "Ben"}
\* create-pet requests that can be in a handler at the same time
Creators == {"c1", "c2"}
PetNames == {"Jamie", "jamie"}
RequestedTypes == {"poodle"}
RequestedNames == {"Jamie"}
\* the store of a purchase request: a configured store, or a number that is none
RequestedStores == {0, 1, 2, 3}
ContentTypes == {"application/json", "text/plain"}
\* type names a store can list, and type names a purchase can ask for
ListedTypeNames == {"Poodle", "poodle", "Cat"}
AskedTypes == {"poodle", "Poodle", "cat", "dog"}
\* create-pet-type requests that can be in a handler at the same time
TypeCreators == {"k1", "k2"}
\* birthdates of an update: one in the format DD-MM-YYYY and one that is not
Birthdates == {"24-10-2023", "2023"}
\* what the Ninja API makes of an animal name: a record of it, none (404 or an
\* empty or unmatched result), or a failure (another status, no connection)
NinjaOutcomes == {"found", "not_found", "api_error"}
\* str(ObjectId) of the pet types store 1 lists, in the order of their creation
NewTypeIds == <<"t1", "t2", "t3">>

\* what the network and the remote side make of one HTTP call:
\*   served          the handler of the store ran and its answer arrived
\*   http_error      the store answered 503 without running the handler
\*   transport_error httpx raised (connection refused, timeout)
RemoteOutcomes == {"served", "http_error", "transport_error"}
\* pymongo's insert_one into the ledger either returns or raises
LedgerOutcomes == {"served", "transport_error"}

None == <<>>
Some(x) == <<x>>

\* str.lower() / re.IGNORECASE over the strings of the model
Lower(s) ==
  CASE s = "Jamie" -> "jamie"
    [] s = "Poodle" -> "poodle"
    [] s = "Cat" -> "cat"
    [] OTHER -> s

\* Python truthiness of an Optional[int] (`if request.store`) and of an
\* Optional[str] (`if request.pet_name`)
TruthyInt(opt) == opt # None /\ opt[1] # 0
TruthyStr(opt) == opt # None /\ opt[1] # ""

\* str(ObjectId): the 24-digit hexadecimal text of a generated identifier
StrOfObjectId(n) == <<"oid", n>>

VARIABLES
  petTypes,   \* [store -> sequence of pet_types_<store> documents]
  pets,       \* [store -> sequence of pets_<store> documents, in insertion order]
  ledger,     \* sequence of documents of the transactions collection
  cpc,        \* [creator -> position of a create-pet request in its handler]
  creq,       \* [creator -> the create-pet request being handled]
  pc,         \* [purchaser -> position of the purchase request]
  request,    \* [purchaser -> PurchaseRequest]
  frame,      \* [purchaser -> local variables of find_available_pet / process_purchase]
  response,   \* [purchaser -> HTTP response of POST /purchases]
  calls,      \* history: [purchaser -> sequence of the external calls it made]
  txreq,      \* the last GET /transactions request
  tx,         \* HTTP response of the last GET /transactions
  ledgerRead, \* history: some GET /transactions has run collection.find
  removed,    \* history: pets deleted from the inventories, and for whom
  tpc,        \* [type creator -> position of a create-pet-type request in its handler]
  treq,       \* [type creator -> the create-pet-type request being handled]
  typesMade,  \* number of pet types store 1 has generated an id for
  sreq,       \* the last request a pet-store answered to its owner
  sres        \* HTTP response to that request

vars == <<petTypes, pets, ledger, cpc, creq, pc, request, frame, response, calls, txreq,
          tx, ledgerRead, removed, tpc, treq, typesMade, sreq, sres>>
storeVars == <<petTypes, pets>>
createVars == <<cpc, creq>>
purchaseVars == <<pc, request, frame, response, calls>>
queryVars == <<txreq, tx, ledgerRead>>
adminVars == <<tpc, treq, typesMade, sreq, sres>>

\* ------------------------------------------------ pet-store: storage layer

FirstOf(docs) == IF docs = <<>> THEN None ELSE Some(Head(docs))

get_pet_type(s, pet_type_id) ==
  FirstOf(SelectSeq(petTypes[s], LAMBDA d : d.id = pet_type_id))

get_all_pet_types(s) == petTypes[s]

get_pet_case_insensitive(s, pet_type_id, pet_name) ==
  FirstOf(SelectSeq(pets[s], LAMBDA d :
            d.pet_type_id = pet_type_id /\ Lower(d.name) = Lower(pet_name)))

pet_exists(s, pet_type_id, pet_name) ==
  get_pet_case_insensitive(s, pet_type_id, pet_name) # None

get_pets_for_type(s, pet_type_id) ==
  SelectSeq(pets[s], LAMBDA d : d.pet_type_id = pet_type_id)

\* the unique index on (pet_type_id, name): an exact duplicate is refused
DuplicateKey(s, pet_type_id, pet_name) ==
  \E i \in 1..Len(pets[s]) :
    pets[s][i].pet_type_id = pet_type_id /\ pets[s][i].name = pet_name

\* a delete_many: every pet of the type that answers to the name goes
store_delete_pet_many(docs, pet_type_id, pet_name) ==
  SelectSeq(docs, LAMBDA d :
    ~(d.pet_type_id = pet_type_id /\ Lower(d.name) = Lower(pet_name)))

\* delete_one({"pet_type_id": ..., "name": ...}): the first exact match goes
store_delete_pet(docs, pet_type_id, pet_name) ==
  LET hit == {i \in 1..Len(docs) :
                docs[i].pet_type_id = pet_type_id /\ docs[i].name = pet_name}
  IN IF hit = {} THEN docs
     ELSE LET k == CHOOSE i \in hit : \A j \in hit : i <= j
          IN SubSeq(docs, 1, k - 1) \o SubSeq(docs, k + 1, Len(docs))

\* $addToSet / $pull on the pets array of one pet-type document
add_pet_name_to_type(types, pet_type_id, pet_name) ==
  [i \in 1..Len(types) |->
     IF types[i].id = pet_type_id
     THEN [types[i] EXCEPT !.pets = @ \cup {pet_name}] ELSE types[i]]

remove_pet_name_from_type(types, pet_type_id, pet_name) ==
  [i \in 1..Len(types) |->
     IF types[i].id = pet_type_id
     THEN [types[i] EXCEPT !.pets = @ \ {pet_name}] ELSE types[i]]

\* ------------------------------------------------ pet-store: the handlers
\* Each answers [status, ...]; the handlers that write also give the new
\* contents of the two collections of their store.

\* GET /pet-types
GetPetTypesHandler(s) == [status |-> 200, body |-> get_all_pet_types(s)]

\* a listing that forgets to filter by pet type
GetPetsHandler_all_types(s, id) ==
  IF get_pet_type(s, id) = None
  THEN [status |-> 404, body |-> <<>>]
  ELSE [status |-> 200,
        body |-> [i \in 1..Len(pets[s]) |->
                    [name |-> pets[s][i].name, birthdate |-> pets[s][i].birthdate]]]

\* GET /pet-types/{id}/pets
GetPetsHandler(s, id) ==
  IF get_pet_type(s, id) = None
  THEN [status |-> 404, body |-> <<>>]
  ELSE [status |-> 200,
        body |-> [i \in 1..Len(get_pets_for_type(s, id)) |->
                    [name |-> get_pets_for_type(s, id)[i].name,
                     birthdate |-> get_pets_for_type(s, id)[i].birthdate]]]

\* GET /pet-types/{id}/pets/{name}
GetPetHandler(s, id, name) ==
  LET result == get_pet_case_insensitive(s, id, name)
  IN IF get_pet_type(s, id) = None \/ result = None
     THEN [status |-> 404, body |-> None]
     ELSE [status |-> 200,
           body |-> Some([name |-> result[1].name, birthdate |-> result[1].birthdate])]

\* a delete_pet that skips the PET_NOT_FOUND check and trusts delete_one
DeletePetHandler_unchecked(s, id, name) ==
  IF get_pet_type(s, id) = None
  THEN [status |-> 404, pets |-> pets[s], types |-> petTypes[s], deleted |-> None]
  ELSE [status |-> 204,
        pets |-> store_delete_pet(pets[s], id, name),
        types |-> remove_pet_name_from_type(petTypes[s], id, name),
        deleted |-> IF DuplicateKey(s, id, name) THEN Some(name) ELSE None]

\* DELETE /pet-types/{id}/pets/{name}
DeletePetHandler(s, id, name) ==
  LET result == get_pet_case_insensitive(s, id, name)
  IN IF get_pet_type(s, id) = None \/ result = None
     THEN [status |-> 404, pets |-> pets[s], types |-> petTypes[s], deleted |-> None]
     ELSE LET actual_name == result[1].name
          IN [status |-> 204,
              pets |-> store_delete_pet(pets[s], id, actual_name),
              types |-> remove_pet_name_from_type(petTypes[s], id, actual_name),
              deleted |-> Some(actual_name)]

\* store.add_pet then add_pet_name_to_type, the tail of create_pet;
\* insert_one raises DuplicateKeyError on an exact duplicate (500, nothing added)
InsertPet(s, id, name) ==
  IF DuplicateKey(s, id, name)
  THEN UNCHANGED storeVars
  ELSE /\ pets' = [pets EXCEPT ![s] =
                     Append(@, [pet_type_id |-> id, name |-> name, birthdate |-> "NA"])]
       /\ petTypes' = [petTypes EXCEPT ![s] = add_pet_name_to_type(@, id, name)]

\* ------------------------------------------------- stocking of the stores
\* Pets are put into the stores by POST /pet-types/{id}/pets before the sale
\* opens: no create-pet request is in flight while a purchase runs.

NoCreate == [store |-> 0, id |-> "", name |-> ""]
StockingOpen == \A p \in Purchasers : pc[p] = "idle"
StockingOver == \A c \in Creators : cpc[c] # "download"

TypeIds(s) == {petTypes[s][i].id : i \in 1..Len(petTypes[s])}

\* create_pet up to its first await: without a picture-url it runs to the end
\* pets in the stores, and pets about to be inserted
Stocked == Len(pets[1]) + Len(pets[2]) + Cardinality({c \in Creators : cpc[c] = "download"})

CreatePet(c, s, id, name, picture_url) ==
  /\ StockingOpen
  /\ Stocked < MaxPets
  /\ cpc[c] = "idle"
  /\ UNCHANGED <<ledger, purchaseVars, queryVars, adminVars, removed>>
  /\ IF get_pet_type(s, id) = None \/ pet_exists(s, id, name)
     THEN UNCHANGED <<createVars, storeVars>>
     ELSE IF picture_url
     THEN /\ cpc' = [cpc EXCEPT ![c] = "download"]
          /\ creq' = [creq EXCEPT ![c] = [store |-> s, id |-> id, name |-> name]]
          /\ UNCHANGED storeVars
     ELSE /\ InsertPet(s, id, name)
          /\ UNCHANGED createVars

\* create_pet after download_and_save_picture returned or failed
CreatePetResume(c) ==
  /\ cpc[c] = "download"
  /\ InsertPet(creq[c].store, creq[c].id, creq[c].name)
  /\ cpc' = [cpc EXCEPT ![c] = "idle"]
  /\ creq' = [creq EXCEPT ![c] = NoCreate]
  /\ UNCHANGED <<ledger, purchaseVars, queryVars, adminVars, removed>>

\* ------------------------------------------- pet-order: pet_store_client

\* get_pet_types / get_pets_for_type: a status other than 200 is no data
ListBody(answer) == IF answer.status = 200 THEN answer.body ELSE <<>>

\* get_pet: a status other than 200 is None
PetBody(answer) == IF answer.status = 200 THEN answer.body ELSE None

\* a lookup that keeps the last match of the listing
find_pet_type_id_last(pet_types, pet_type_name) ==
  LET m == SelectSeq(pet_types, LAMBDA pt : Lower(pt.type) = Lower(pet_type_name))
  IN IF m = <<>> THEN None ELSE Some(m[Len(m)].id)

find_pet_type_id(pet_types, pet_type_name) ==
  LET m == SelectSeq(pet_types, LAMBDA pt : Lower(pt.type) = Lower(pet_type_name))
  IN IF m = <<>> THEN None ELSE Some(Head(m).id)

\* a client that takes every answer for a success
delete_pet_success_always(status) == TRUE

\* delete_pet: True exactly for 200 and 204
delete_pet_success(status) == status \in {200, 204}

\* the answer of a store that did not run its handler
Unavailable == [status |-> 503, body |-> <<>>]

\* ------------------------------------------------ pet-order: the requests

NoRequest == [purchaser |-> "", pet_type |-> "", store |-> None, pet_name |-> None]
NoFrame == [stores_to_check |-> <<>>, pet_type_id |-> None, pet |-> None]
NoResponse == [status |-> 0]

\* JSON bodies sent to POST /purchases, well-formed or not
PurchaseBodies ==
  [content_type : ContentTypes,
   pet_type : RequestedTypes,
   store : {None} \cup {Some(s) : s \in RequestedStores},
   pet_name : {None} \cup {Some(n) : n \in RequestedNames}]

\* `"application/json" not in content_type`
IsJson(content_type) == content_type = "application/json"

\* a validator that forgets that a pet-name needs a store
validate_store_only(body) ==
  ~(body.store # None /\ body.store[1] \notin {1, 2})

validate_pet_name_requires_store(body) ==
  /\ ~(TruthyStr(body.pet_name) /\ ~TruthyInt(body.store))
  /\ ~(body.store # None /\ body.store[1] \notin {1, 2})

MalformedData == [status |-> 400, error |-> "Malformed data"]
UnsupportedMediaType == [status |-> 415, error |-> "Expected application/json media type"]
NoPetAvailable == [status |-> 400, error |-> "No pet of this type is available"]
ServerError == [status |-> 500, error |-> "Internal Server Error"]

PurchaseResponse(p, pet, purchase_id) ==
  [status |-> 201, purchaser |-> request[p].purchaser, pet_type |-> pet.pet_type_name,
   store |-> pet.store, pet_name |-> pet.name, purchase_id |-> purchase_id]

\* a locator that files every candidate under the first store
FoundPet_first_store(store, pet_type_id, pet_type_name, name) ==
  [store |-> 1, pet_type_id |-> pet_type_id, pet_type_name |-> pet_type_name,
   name |-> name]

FoundPet(store, pet_type_id, pet_type_name, name) ==
  [store |-> store, pet_type_id |-> pet_type_id, pet_type_name |-> pet_type_name,
   name |-> name]

\* a locator that probes the stores from the last to the first
stores_to_check_descending(store) ==
  IF TruthyInt(store) THEN <<store[1]>> ELSE <<2, 1>>

\* `stores_to_check = [request.store] if request.store else [1, 2]`
stores_to_check(store) ==
  IF TruthyInt(store) THEN <<store[1]>> ELSE <<1, 2>>

\* one external call: the operation, the store and path arguments it went to,
\* what became of it, and the status of the answer (0 when there was none)
Call(op, store, arg, outcome, status) ==
  [op |-> op, store |-> store, arg |-> arg, outcome |-> outcome, status |-> status]

Logged(p, call) == calls' = [calls EXCEPT ![p] = Append(@, call)]

\* the request ends: the response goes out and the locals are dropped
Finish(p, resp) ==
  /\ pc' = [pc EXCEPT ![p] = "done"]
  /\ response' = [response EXCEPT ![p] = resp]
  /\ frame' = [frame EXCEPT ![p] = NoFrame]

\* an exception other than NoPetAvailable leaves create_purchase uncaught
Raise(p) == Finish(p, ServerError)

\* a locator that gives up at the first store without a candidate
NextStore_break(p) == Finish(p, NoPetAvailable)

\* `continue`, or the end of the loop of find_available_pet: return None,
\* which process_purchase turns into NoPetAvailable
NextStore(p) ==
  LET rest == Tail(frame[p].stores_to_check)
  IN IF rest = <<>>
     THEN Finish(p, NoPetAvailable)
     ELSE /\ frame' = [frame EXCEPT ![p] = [NoFrame EXCEPT !.stores_to_check = rest]]
          /\ pc' = [pc EXCEPT ![p] = "find_pet_type_id"]
          /\ UNCHANGED response

\* find_available_pet returned a FoundPet: process_purchase goes on to claim it
Found(p, pet) ==
  /\ frame' = [frame EXCEPT ![p].pet = Some(pet)]
  /\ pc' = [pc EXCEPT ![p] = "delete_pet"]
  /\ UNCHANGED response

\* POST /purchases arrives: pydantic validation, then process_purchase starts
CreatePurchase(p, body) ==
  /\ StockingOver
  /\ pc[p] = "idle"
  /\ UNCHANGED <<storeVars, createVars, ledger, calls, queryVars, adminVars, removed>>
  /\ IF ~IsJson(body.content_type)
     THEN /\ Finish(p, UnsupportedMediaType)
          /\ UNCHANGED request
     ELSE IF ~validate_pet_name_requires_store(body)
     THEN /\ Finish(p, MalformedData)
          /\ UNCHANGED request
     ELSE /\ request' = [request EXCEPT ![p] =
                           [purchaser |-> p, pet_type |-> body.pet_type,
                            store |-> body.store, pet_name |-> body.pet_name]]
          /\ frame' = [frame EXCEPT ![p] =
                         [NoFrame EXCEPT !.stores_to_check = stores_to_check(body.store)]]
          /\ pc' = [pc EXCEPT ![p] = "find_pet_type_id"]
          /\ UNCHANGED response

\* pet_store_client.find_pet_type_id(store, request.pet_type)
FindPetTypeId(p, outcome) ==
  /\ pc[p] = "find_pet_type_id"
  /\ UNCHANGED <<storeVars, createVars, ledger, request, queryVars, adminVars,
               removed>>
  /\ LET store == Head(frame[p].stores_to_check)
         answer == IF outcome = "served" THEN GetPetTypesHandler(store) ELSE Unavailable
         pet_type_id == find_pet_type_id(ListBody(answer), request[p].pet_type)
     IN /\ Logged(p, Call("get_pet_types", store, <<>>, outcome, answer.status))
        /\ IF outcome = "transport_error" THEN Raise(p)
           ELSE IF pet_type_id = None THEN NextStore(p)
           ELSE /\ frame' = [frame EXCEPT ![p].pet_type_id = pet_type_id]
                /\ pc' = [pc EXCEPT ![p] =
                            IF TruthyStr(request[p].pet_name) THEN "get_pet"
                            ELSE "get_pets_for_type"]
                /\ UNCHANGED response

\* pet_store_client.get_pet(store, pet_type_id, request.pet_name)
GetPet(p, outcome) ==
  /\ pc[p] = "get_pet"
  /\ UNCHANGED <<storeVars, createVars, ledger, request, queryVars, adminVars,
               removed>>
  /\ LET store == Head(frame[p].stores_to_check)
         pet_type_id == frame[p].pet_type_id[1]
         answer == IF outcome = "served"
                   THEN GetPetHandler(store, pet_type_id, request[p].pet_name[1])
                   ELSE Unavailable
         pet == PetBody(answer)
     IN /\ Logged(p, Call("get_pet", store, <<pet_type_id, request[p].pet_name[1]>>, outcome, answer.status))
        /\ IF outcome = "transport_error" THEN Raise(p)
           ELSE IF pet = None THEN NextStore(p)
           ELSE Found(p, FoundPet(store, pet_type_id, request[p].pet_type, pet[1].name))

\* pet_store_client.get_pets_for_type(store, pet_type_id), then random.choice
GetPetsForType(p, outcome) ==
  /\ pc[p] = "get_pets_for_type"
  /\ UNCHANGED <<storeVars, createVars, ledger, request, queryVars, adminVars,
               removed>>
  /\ LET store == Head(frame[p].stores_to_check)
         pet_type_id == frame[p].pet_type_id[1]
         answer == IF outcome = "served" THEN GetPetsHandler(store, pet_type_id)
                   ELSE Unavailable
         listed == ListBody(answer)
     IN /\ Logged(p, Call("get_pets_for_type", store, <<pet_type_id>>, outcome, answer.status))
        /\ IF outcome = "transport_error" THEN Raise(p)
           ELSE IF listed = <<>> THEN NextStore(p)
           ELSE \E i \in 1..Len(listed) :
                  Found(p, FoundPet(store, pet_type_id, request[p].pet_type, listed[i].name))

\* an arbiter that goes back to the locator when the claim fails
ClaimFailed_retry(p) ==
  /\ frame' = [frame EXCEPT ![p] =
                 [NoFrame EXCEPT !.stores_to_check = stores_to_check(request[p].store)]]
  /\ pc' = [pc EXCEPT ![p] = "find_pet_type_id"]
  /\ UNCHANGED response

\* an arbiter that records the sale although the claim failed
ClaimFailed_ignored(p) ==
  /\ pc' = [pc EXCEPT ![p] = "insert_one"]
  /\ UNCHANGED <<frame, response>>

\* `if not success: raise NoPetAvailable()`
ClaimFailed(p) == Finish(p, NoPetAvailable)

\* pet_store_client.delete_pet(pet.store, pet.pet_type_id, pet.name)
DeletePet(p, outcome) ==
  /\ pc[p] = "delete_pet"
  /\ UNCHANGED <<createVars, ledger, request, queryVars, adminVars>>
  /\ LET pet == frame[p].pet[1]
         answer == IF outcome = "served"
                   THEN DeletePetHandler(pet.store, pet.pet_type_id, pet.name)
                   ELSE [status |-> 503, pets |-> pets[pet.store],
                         types |-> petTypes[pet.store], deleted |-> None]
     IN /\ pets' = [pets EXCEPT ![pet.store] = answer.pets]
        /\ petTypes' = [petTypes EXCEPT ![pet.store] = answer.types]
        /\ removed' = IF answer.deleted = None THEN removed
                      ELSE removed \cup {[store |-> pet.store, pet_type_id |-> pet.pet_type_id,
                                          name |-> answer.deleted[1], by |-> p]}
        /\ Logged(p, Call("delete_pet", pet.store, <<pet.pet_type_id, pet.name>>, outcome,
                       answer.status))
        /\ IF outcome = "transport_error" THEN Raise(p)
           ELSE IF ~delete_pet_success(answer.status) THEN ClaimFailed(p)
           ELSE /\ pc' = [pc EXCEPT ![p] = "insert_one"]
                /\ UNCHANGED <<frame, response>>

\* a ledger that keeps one record for each purchaser
insert_one_upsert(collection, document) ==
  IF \E i \in 1..Len(collection) : collection[i].purchaser = document.purchaser
  THEN [i \in 1..Len(collection) |->
          IF collection[i].purchaser = document.purchaser THEN document ELSE collection[i]]
  ELSE Append(collection, document)

\* collection.insert_one(document)
insert_one(collection, document) == Append(collection, document)

\* a transaction that records the store's type id in place of the type name
TransactionData_type_id(p, pet, inserted_id) ==
  [_id |-> inserted_id, purchaser |-> request[p].purchaser,
   pet_type |-> pet.pet_type_id, store |-> pet.store]

\* transaction_data, with the _id insert_one generates for it
TransactionData(p, pet, inserted_id) ==
  [_id |-> inserted_id, purchaser |-> request[p].purchaser,
   pet_type |-> pet.pet_type_name, store |-> pet.store]

\* a handler that catches the failed write and answers "no pet available"
LedgerWriteFailed_swallowed(p) ==
  /\ UNCHANGED <<ledger, storeVars>>
  /\ Finish(p, NoPetAvailable)

\* insert_one raised: nothing catches it, nothing is undone
LedgerWriteFailed(p) ==
  /\ UNCHANGED <<ledger, storeVars>>
  /\ Raise(p)

\* collection.insert_one(transaction_data) and the return of the response
InsertTransaction(p, outcome) ==
  /\ pc[p] = "insert_one"
  /\ UNCHANGED <<createVars, request, queryVars, adminVars, removed>>
  /\ LET pet == frame[p].pet[1]
         inserted_id == Len(ledger) + 1
     IN /\ Logged(p, Call("insert_one", 0, <<>>, outcome, 0))
        /\ IF outcome = "served"
           THEN /\ ledger' = insert_one(ledger, TransactionData(p, pet, inserted_id))
                /\ Finish(p, PurchaseResponse(p, pet, StrOfObjectId(inserted_id)))
                /\ UNCHANGED storeVars
           ELSE LedgerWriteFailed(p)

\* ------------------------------------------- pet-order: GET /transactions

OWNER_PC_SECRET == "LovesPetsL2M3n4"

\* the OwnerPC header: missing, right, or wrong
OwnerPcHeaders == {None, Some("LovesPetsL2M3n4"), Some("lovespetsl2m3n4")}

\* the text of a query parameter is <<kind, n>>: <<"int", n>> is the decimal
\* text of n, <<"oid", n>> the lower-case and <<"OID", n>> the upper-case
\* hexadecimal text of identifier n, <<"junk", 0>> is neither
StoreParams == {None, Some(<<"int", 2>>)}
PurchaserParams == {None, Some("Ana")}
NoParams == [store |-> None, pet_type |-> None, purchaser |-> None, purchase_id |-> None]

\* the query parameters of a request whose filters can all be applied: store
\* and purchaser alone and together, a pet-type, an identifier in lower and
\* in upper case, an empty pet-type
QueryParams ==
  [store : StoreParams, pet_type : {None}, purchaser : PurchaserParams, purchase_id : {None}]
  \cup {[NoParams EXCEPT !.pet_type = Some("poodle")],
        [NoParams EXCEPT !.pet_type = Some("")],
        [NoParams EXCEPT !.purchase_id = Some(<<"oid", 1>>), !.purchaser = Some("Ana")],
        [NoParams EXCEPT !.purchase_id = Some(<<"OID", 2>>)]}

\* ... of requests with an identifier that is none
UnparsableId ==
  {[NoParams EXCEPT !.purchase_id = Some(<<"junk", 0>>)],
   [NoParams EXCEPT !.purchase_id = Some(<<"junk", 0>>), !.store = Some(<<"int", 2>>)]}

\* ... and of a request with a store that is no number
NoNumber == [NoParams EXCEPT !.store = Some(<<"junk", 0>>)]

NoQuery == [ownerpc |-> None, content_type |-> "", params |-> NoParams, outcome |-> ""]

\* GET /transactions requests: with the right header, with a missing or wrong
\* header, with a store that is no number, and with the ledger out of reach
TransactionRequests ==
  [ownerpc : {Some("LovesPetsL2M3n4")}, content_type : {"text/plain"},
   params : QueryParams \cup UnparsableId, outcome : {"served"}]
  \cup [ownerpc : {None}, content_type : {"text/plain"},
        params : {NoParams, NoNumber}, outcome : {"served"}]
  \cup [ownerpc : {Some("lovespetsl2m3n4")}, content_type : {"text/plain"},
        params : {[NoParams EXCEPT !.store = Some(<<"int", 2>>)]}, outcome : {"served"}]
  \cup [ownerpc : {Some("LovesPetsL2M3n4")}, content_type : ContentTypes,
        params : {NoNumber}, outcome : {"served"}]
  \cup [ownerpc : {Some("LovesPetsL2M3n4")}, content_type : {"text/plain"},
        params : {NoParams, [NoParams EXCEPT !.purchase_id = Some(<<"junk", 0>>)]},
        outcome : {"transport_error"}]

\* FastAPI's conversion of `store: Optional[int] = Query(None)`
ParseOptionalInt(param) ==
  IF param = None THEN [ok |-> TRUE, value |-> None]
  ELSE IF param[1][1] = "int" THEN [ok |-> TRUE, value |-> Some(param[1][2])]
  ELSE [ok |-> FALSE, value |-> None]

\* bson.ObjectId(text): 24 hexadecimal digits of either case, else InvalidId
ObjectId(text) ==
  IF text[1] \in {"oid", "OID"} THEN Some(text[2]) ELSE None

Unauthorized == [status |-> 401, error |-> "unauthorized"]

\* validation_exception_handler, for a request FastAPI could not convert
ValidationFailure(content_type) ==
  IF ~IsJson(content_type) THEN UnsupportedMediaType ELSE MalformedData

\* collection.find(query): the documents equal to the query on each of its keys
Find(docs, query) ==
  SelectSeq(docs, LAMBDA doc :
    /\ query.store # None => doc.store = query.store[1]
    /\ query.pet_type # None => doc.pet_type = query.pet_type[1]
    /\ query.purchaser # None => doc.purchaser = query.purchaser[1]
    /\ query._id # None => doc._id = query._id[1])

Transaction(doc) ==
  [purchaser |-> doc.purchaser, pet_type |-> doc.pet_type, store |-> doc.store,
   purchase_id |-> StrOfObjectId(doc._id)]

\* a query that drops the purchaser filter
get_transactions_no_purchaser(store, pet_type, purchaser, purchase_id) ==
  IF purchase_id # None /\ ObjectId(purchase_id[1]) = None
  THEN [read |-> FALSE, body |-> <<>>]
  ELSE LET query == [store |-> store, pet_type |-> pet_type, purchaser |-> None,
                     _id |-> IF purchase_id = None THEN None ELSE ObjectId(purchase_id[1])]
           docs == Find(ledger, query)
       IN [read |-> TRUE, body |-> [i \in 1..Len(docs) |-> Transaction(docs[i])]]

\* a query that lets an unparsable identifier through as no filter
get_transactions_id_ignored(store, pet_type, purchaser, purchase_id) ==
  LET query == [store |-> store, pet_type |-> pet_type, purchaser |-> purchaser,
                _id |-> IF purchase_id = None THEN None ELSE ObjectId(purchase_id[1])]
      docs == Find(ledger, query)
  IN [read |-> TRUE, body |-> [i \in 1..Len(docs) |-> Transaction(docs[i])]]

\* purchase_service.get_transactions: whether it read the ledger, and its result
get_transactions(store, pet_type, purchaser, purchase_id) ==
  IF purchase_id # None /\ ObjectId(purchase_id[1]) = None
  THEN [read |-> FALSE, body |-> <<>>]
  ELSE LET query == [store |-> store, pet_type |-> pet_type, purchaser |-> purchaser,
                     _id |-> IF purchase_id = None THEN None ELSE ObjectId(purchase_id[1])]
           docs == Find(ledger, query)
       IN [read |-> TRUE, body |-> [i \in 1..Len(docs) |-> Transaction(docs[i])]]

\* `ownerpc != OWNER_PC_SECRET`, negated
Authorized(ownerpc) == ownerpc = Some(OWNER_PC_SECRET)

\* GET /transactions: FastAPI converts the parameters, then list_transactions runs
ListTransactions(ownerpc, content_type, params, outcome) ==
  /\ UNCHANGED <<storeVars, createVars, purchaseVars, ledger, removed,
               adminVars>>
  /\ txreq' = [ownerpc |-> ownerpc, content_type |-> content_type, params |-> params,
               outcome |-> outcome]
  /\ IF ~ParseOptionalInt(params.store).ok
     THEN /\ tx' = ValidationFailure(content_type)
          /\ UNCHANGED ledgerRead
     ELSE IF ~Authorized(ownerpc)
     THEN /\ tx' = Unauthorized
          /\ UNCHANGED ledgerRead
     ELSE LET transactions ==
                get_transactions(ParseOptionalInt(params.store).value, params.pet_type,
                                 params.purchaser, params.purchase_id)
          IN /\ ledgerRead' = (ledgerRead \/ transactions.read)
             /\ tx' = IF transactions.read /\ outcome # "served" THEN ServerError
                      ELSE [status |-> 200, body |-> transactions.body]

\* ------------------------------------------- pet-store: the owner's requests

NoTypeCreate == [store |-> 0, type |-> ""]
NoStoreRequest == [op |-> "", store |-> 0, id |-> "", name |-> "", birthdate |-> None]

AdminInit ==
  /\ tpc = [k \in TypeCreators |-> "idle"]
  /\ treq = [k \in TypeCreators |-> NoTypeCreate]
  /\ typesMade = 0
  /\ sreq = NoStoreRequest
  /\ sres = NoResponse

NotFound == [status |-> 404, error |-> "Not found"]
ApiError == [status |-> 500, error |-> "server error"]

StoreRequest(op, s, id, name, birthdate) ==
  [op |-> op, store |-> s, id |-> id, name |-> name, birthdate |-> birthdate]

\* bodies of POST /pet-types: the type names, and one that is no JSON
TypeRequests ==
  [type : ListedTypeNames, content_type : {"application/json"}]
  \cup {[type |-> "Cat", content_type |-> "text/plain"]}

\* PUT requests for a pet: a birthdate in the format and one that is not, the
\* name in another case and no birthdate, a body that names another pet, and
\* a body that is no JSON
UpdateRequests ==
  [pet_name : {"Jamie"}, name : {"Jamie"}, content_type : {"application/json"},
   birthdate : {Some(b) : b \in Birthdates}]
  \cup {[pet_name |-> "jamie", name |-> "Jamie", content_type |-> "application/json",
         birthdate |-> None],
        [pet_name |-> "Jamie", name |-> "Rex", content_type |-> "application/json",
         birthdate |-> Some("24-10-2023")],
        [pet_name |-> "Jamie", name |-> "Jamie", content_type |-> "text/plain",
         birthdate |-> Some("24-10-2023")]}

\* the pet store answers its owner
Answer(req, resp) == sreq' = req /\ sres' = resp

\* find_one({"type": pattern}) with re.IGNORECASE
pet_type_exists(s, pet_type_value) ==
  \E i \in 1..Len(petTypes[s]) : Lower(petTypes[s][i].type) = Lower(pet_type_value)

\* insert_one(animal_data): "type" is the name as requested, "pets" is empty
add_pet_type(types, id, type) == Append(types, [id |-> id, type |-> type, pets |-> {}])

\* delete_one({"_id": ObjectId(pet_type_id)})
store_delete_pet_type(types, pet_type_id) ==
  SelectSeq(types, LAMBDA d : d.id # pet_type_id)

\* pet types created, and pet types about to be inserted
TypesUnderWay == typesMade + Cardinality({k \in TypeCreators : tpc[k] = "fetch"})

\* POST /pet-types up to `await ninja_api_service.fetch_animal_data`
CreatePetType(k, s, type, content_type) ==
  /\ tpc[k] = "idle"
  /\ TypesUnderWay < MaxTypes
  /\ UNCHANGED <<storeVars, createVars, purchaseVars, ledger, queryVars, removed, typesMade>>
  /\ IF ~IsJson(content_type)
     THEN /\ Answer(StoreRequest("create_pet_type", s, "", type, None), UnsupportedMediaType)
          /\ UNCHANGED <<tpc, treq>>
     ELSE IF pet_type_exists(s, type)
     THEN /\ Answer(StoreRequest("create_pet_type", s, "", type, None), MalformedData)
          /\ UNCHANGED <<tpc, treq>>
     ELSE /\ tpc' = [tpc EXCEPT ![k] = "fetch"]
          /\ treq' = [treq EXCEPT ![k] = [store |-> s, type |-> type]]
          /\ UNCHANGED <<sreq, sres>>

\* POST /pet-types after fetch_animal_data returned or raised
CreatePetTypeResume(k, outcome) ==
  /\ tpc[k] = "fetch"
  /\ tpc' = [tpc EXCEPT ![k] = "idle"]
  /\ treq' = [treq EXCEPT ![k] = NoTypeCreate]
  /\ UNCHANGED <<pets, createVars, purchaseVars, ledger, queryVars, removed>>
  /\ LET s == treq[k].store
         pet_type_id == NewTypeIds[typesMade + 1]
         req == StoreRequest("create_pet_type", s, "", treq[k].type, None)
     IN IF outcome = "found"
        THEN /\ petTypes' = [petTypes EXCEPT ![s] = add_pet_type(@, pet_type_id, treq[k].type)]
             /\ typesMade' = typesMade + 1
             /\ Answer(req, [status |-> 201,
                             body |-> [id |-> pet_type_id, type |-> treq[k].type, pets |-> {}]])
        ELSE /\ UNCHANGED <<petTypes, typesMade>>
             /\ Answer(req, IF outcome = "not_found" THEN MalformedData ELSE ApiError)

\* DELETE /pet-types/{id}
DeletePetType(s, id) ==
  /\ UNCHANGED <<pets, createVars, purchaseVars, ledger, queryVars, removed,
                 tpc, treq, typesMade>>
  /\ LET pet_type == get_pet_type(s, id)
         req == StoreRequest("delete_pet_type", s, id, "", None)
     IN IF pet_type = None
        THEN Answer(req, NotFound) /\ UNCHANGED petTypes
        ELSE IF pet_type[1].pets # {}
        THEN Answer(req, MalformedData) /\ UNCHANGED petTypes
        ELSE /\ petTypes' = [petTypes EXCEPT ![s] = store_delete_pet_type(@, id)]
             /\ Answer(req, [status |-> 204])

\* datetime.strptime(date_str, "%d-%m-%Y") over the birthdates of the model
validate_date_format(date_str) == date_str = "NA" \/ date_str = "24-10-2023"

\* `pet["birthdate"] = birthdate`: pet is the dict that find_one returned, and
\* update_pet calls no write of the store; the pets collection stays as it is
assign_birthdate(docs, pet_type_id, actual_name, birthdate) == docs

\* PUT /pet-types/{id}/pets/{name} without a picture-url
UpdatePet(s, id, pet_name, name, birthdate, content_type) ==
  /\ UNCHANGED <<petTypes, createVars, purchaseVars, ledger, queryVars, removed,
                 tpc, treq, typesMade>>
  /\ LET req == StoreRequest("update_pet", s, id, pet_name, birthdate)
         result == get_pet_case_insensitive(s, id, pet_name)
     IN IF ~IsJson(content_type)
        THEN Answer(req, UnsupportedMediaType) /\ UNCHANGED pets
        ELSE IF get_pet_type(s, id) = None
        THEN Answer(req, NotFound) /\ UNCHANGED pets
        ELSE IF Lower(name) # Lower(pet_name)
        THEN Answer(req, MalformedData) /\ UNCHANGED pets
        ELSE IF result = None
        THEN Answer(req, NotFound) /\ UNCHANGED pets
        ELSE IF TruthyStr(birthdate) /\ ~validate_date_format(birthdate[1])
        THEN Answer(req, MalformedData) /\ UNCHANGED pets
        ELSE /\ pets' = [pets EXCEPT ![s] =
                           assign_birthdate(@, id, result[1].name, birthdate)]
             /\ Answer(req, [status |-> 200,
                             body |-> [name |-> result[1].name,
                                       birthdate |-> IF TruthyStr(birthdate) THEN birthdate[1]
                                                     ELSE result[1].birthdate]])

\* ------------------------------------------------------- the specification

Init ==
  /\ petTypes = [s \in Stores |->
                   IF s = 1 THEN <<[id |-> "p1", type |-> "Poodle", pets |-> {}]>>
                   ELSE <<[id |-> "c2", type |-> "Cat", pets |-> {}],
                          [id |-> "p2", type |-> "Poodle", pets |-> {}]>>]
  /\ pets = [s \in Stores |-> <<>>]
  /\ ledger = <<>>
  /\ cpc = [c \in Creators |-> "idle"]
  /\ creq = [c \in Creators |-> NoCreate]
  /\ pc = [p \in Purchasers |-> "idle"]
  /\ request = [p \in Purchasers |-> NoRequest]
  /\ frame = [p \in Purchasers |-> NoFrame]
  /\ response = [p \in Purchasers |-> NoResponse]
  /\ calls = [p \in Purchasers |-> <<>>]
  /\ txreq = NoQuery
  /\ tx = NoResponse
  /\ ledgerRead = FALSE
  /\ removed = {}
  /\ AdminInit

Next ==
  \/ \E c \in Creators, s \in Stores, n \in PetNames, u \in BOOLEAN :
       \E id \in TypeIds(s) : CreatePet(c, s, id, n, u)
  \/ \E c \in Creators : CreatePetResume(c)
  \/ \E p \in Purchasers, body \in PurchaseBodies : CreatePurchase(p, body)
  \/ \E p \in Purchasers, o \in RemoteOutcomes : FindPetTypeId(p, o)
  \/ \E p \in Purchasers, o \in RemoteOutcomes : GetPet(p, o)
  \/ \E p \in Purchasers, o \in RemoteOutcomes : GetPetsForType(p, o)
  \/ \E p \in Purchasers, o \in RemoteOutcomes : DeletePet(p, o)
  \/ \E p \in Purchasers, o \in LedgerOutcomes : InsertTransaction(p, o)

Spec == Init /\ [][Next]_vars

\* Purchases that run one after another: a request is taken up only when no
\* other purchase is between its arrival and its answer.
RunsAlone(p) == \A q \in Purchasers \ {p} : pc[q] \in {"idle", "done"}

SeqNext ==
  \/ \E c \in Creators, s \in Stores, n \in PetNames, u \in BOOLEAN :
       \E id \in TypeIds(s) : CreatePet(c, s, id, n, u)
  \/ \E c \in Creators : CreatePetResume(c)
  \/ \E p \in Purchasers, body \in PurchaseBodies : RunsAlone(p) /\ CreatePurchase(p, body)
  \/ \E p \in Purchasers, o \in RemoteOutcomes : FindPetTypeId(p, o)
  \/ \E p \in Purchasers, o \in RemoteOutcomes : GetPet(p, o)
  \/ \E p \in Purchasers, o \in RemoteOutcomes : GetPetsForType(p, o)
  \/ \E p \in Purchasers, o \in RemoteOutcomes : DeletePet(p, o)
  \/ \E p \in Purchasers, o \in LedgerOutcomes : InsertTransaction(p, o)

SeqSpec == Init /\ [][SeqNext]_vars

\* The ledger under purchases and queries.  The sale is open: store 1 holds
\* Jamie, store 2 holds jamie, and the ledger holds the record of an earlier
\* sale.
EarlierSale == [_id |-> 1, purchaser |-> "Ana", pet_type |-> "Cat", store |-> 2]

LedgerInit ==
  /\ petTypes = [s \in Stores |->
                   IF s = 1 THEN <<[id |-> "p1", type |-> "Poodle", pets |-> {"Jamie"}]>>
                   ELSE <<[id |-> "c2", type |-> "Cat", pets |-> {}],
                          [id |-> "p2", type |-> "Poodle", pets |-> {"jamie"}]>>]
  /\ pets = [s \in Stores |->
               IF s = 1 THEN <<[pet_type_id |-> "p1", name |-> "Jamie", birthdate |-> "NA"]>>
               ELSE <<[pet_type_id |-> "p2", name |-> "jamie", birthdate |-> "NA"]>>]
  /\ ledger = <<EarlierSale>>
  /\ cpc = [c \in Creators |-> "idle"]
  /\ creq = [c \in Creators |-> NoCreate]
  /\ pc = [p \in Purchasers |-> "idle"]
  /\ request = [p \in Purchasers |-> NoRequest]
  /\ frame = [p \in Purchasers |-> NoFrame]
  /\ response = [p \in Purchasers |-> NoResponse]
  /\ calls = [p \in Purchasers |-> <<>>]
  /\ txreq = NoQuery
  /\ tx = NoResponse
  /\ ledgerRead = FALSE
  /\ removed = {}
  /\ AdminInit

LedgerNext ==
  \/ \E p \in Purchasers, body \in PurchaseBodies : CreatePurchase(p, body)
  \/ \E p \in Purchasers, o \in RemoteOutcomes : FindPetTypeId(p, o)
  \/ \E p \in Purchasers, o \in RemoteOutcomes : GetPet(p, o)
  \/ \E p \in Purchasers, o \in RemoteOutcomes : GetPetsForType(p, o)
  \/ \E p \in Purchasers, o \in RemoteOutcomes : DeletePet(p, o)
  \/ \E p \in Purchasers, o \in LedgerOutcomes : InsertTransaction(p, o)
  \/ \E r \in TransactionRequests :
       ListTransactions(r.ownerpc, r.content_type, r.params, r.outcome)

LedgerSpec == LedgerInit /\ [][LedgerNext]_vars

\* The type lookup of the locator.  Store 1 lists up to MaxTypes pet types of
\* any names, two names that differ in letter case only among them (what two
\* POST /pet-types requests in flight together leave behind), and holds Jamie
\* under the first of them; store 2 lists Cat and Poodle and holds jamie.  One
\* purchaser asks for types that are listed under another case, or not at all.
Listings ==
  UNION {{[i \in 1..k |-> [id |-> NewTypeIds[i], type |-> names[i],
                           pets |-> IF i = 1 THEN {"Jamie"} ELSE {}]] :
            names \in [1..k -> ListedTypeNames]} : k \in 0..MaxTypes}

TypeBodies ==
  [content_type : {"application/json"},
   pet_type : AskedTypes,
   store : {None, Some(1), Some(2)},
   pet_name : {None, Some("Jamie")}]

TypeInit ==
  /\ petTypes \in {[s \in Stores |->
                      IF s = 1 THEN listing
                      ELSE <<[id |-> "c2", type |-> "Cat", pets |-> {}],
                             [id |-> "p2", type |-> "Poodle", pets |-> {"jamie"}]>>] :
                     listing \in Listings}
  /\ pets = [s \in Stores |->
               IF s = 2 THEN <<[pet_type_id |-> "p2", name |-> "jamie", birthdate |-> "NA"]>>
               ELSE IF petTypes[1] = <<>> THEN <<>>
               ELSE <<[pet_type_id |-> "t1", name |-> "Jamie", birthdate |-> "NA"]>>]
  /\ ledger = <<>>
  /\ cpc = [c \in Creators |-> "idle"]
  /\ creq = [c \in Creators |-> NoCreate]
  /\ pc = [p \in Purchasers |-> "idle"]
  /\ request = [p \in Purchasers |-> NoRequest]
  /\ frame = [p \in Purchasers |-> NoFrame]
  /\ response = [p \in Purchasers |-> NoResponse]
  /\ calls = [p \in Purchasers |-> <<>>]
  /\ txreq = NoQuery
  /\ tx = NoResponse
  /\ ledgerRead = FALSE
  /\ removed = {}
  /\ AdminInit

TypeNext ==
  \/ \E body \in TypeBodies : CreatePurchase("Ana", body)
  \/ \E o \in RemoteOutcomes : FindPetTypeId("Ana", o)
  \/ \E o \in RemoteOutcomes : GetPet("Ana", o)
  \/ \E o \in RemoteOutcomes : GetPetsForType("Ana", o)
  \/ \E o \in RemoteOutcomes : DeletePet("Ana", o)
  \/ \E o \in LedgerOutcomes : InsertTransaction("Ana", o)

TypeSpec == TypeInit /\ [][TypeNext]_vars

\* One pet-store under its owner's requests: pet types are created and
\* deleted and pets are created and updated in store 1, with no sale going on.
StoreNext ==
  \/ \E k \in TypeCreators, r \in TypeRequests : CreatePetType(k, 1, r.type, r.content_type)
  \/ \E k \in TypeCreators, o \in NinjaOutcomes : CreatePetTypeResume(k, o)
  \/ \E id \in TypeIds(1) \cup {"p1"} : DeletePetType(1, id)
  \/ \E c \in Creators, n \in PetNames, u \in BOOLEAN :
       \E id \in TypeIds(1) : CreatePet(c, 1, id, n, u)
  \/ \E c \in Creators : CreatePetResume(c)
  \/ \E r \in UpdateRequests :
       \E id \in TypeIds(1) :
         UpdatePet(1, id, r.pet_name, r.name, r.birthdate, r.content_type)

StoreSpec == Init /\ [][StoreNext]_vars

\* The sale with every call returning.  The stores are stocked as for the
\* ledger; a purchase that has made a call is resumed when the call returns
\* or raises, which asyncio does for every coroutine whose awaited call ends.
PurchaseStep(p) ==
  \/ \E o \in RemoteOutcomes : FindPetTypeId(p, o)
  \/ \E o \in RemoteOutcomes : GetPet(p, o)
  \/ \E o \in RemoteOutcomes : GetPetsForType(p, o)
  \/ \E o \in RemoteOutcomes : DeletePet(p, o)
  \/ \E o \in LedgerOutcomes : InsertTransaction(p, o)

SaleNext ==
  \/ \E p \in Purchasers, body \in PurchaseBodies : CreatePurchase(p, body)
  \/ \E p \in Purchasers, o \in RemoteOutcomes : FindPetTypeId(p, o)
  \/ \E p \in Purchasers, o \in RemoteOutcomes : GetPet(p, o)
  \/ \E p \in Purchasers, o \in RemoteOutcomes : GetPetsForType(p, o)
  \/ \E p \in Purchasers, o \in RemoteOutcomes : DeletePet(p, o)
  \/ \E p \in Purchasers, o \in LedgerOutcomes : InsertTransaction(p, o)

LiveSpec ==
  /\ LedgerInit
  /\ [][SaleNext]_vars
  /\ \A p \in Purchasers : WF_vars(PurchaseStep(p))

\* ------------------------------------------------- vocabulary of the claims

Done(p) == pc[p] = "done"
Completed(p) == Done(p) /\ response[p].status = 201
Refused(p) == Done(p) /\ response[p] = NoPetAvailable
Failed500(p) == Done(p) /\ response[p] = ServerError

CallsOf(p, op) == {i \in 1..Len(calls[p]) : calls[p][i].op = op}
Undisturbed(p) == \A i \in 1..Len(calls[p]) : calls[p][i].outcome = "served"

\* the DELETE of p was answered, and the answer was 200 or 204
ClaimWon(p) ==
  \E i \in CallsOf(p, "delete_pet") :
    calls[p][i].outcome # "transport_error" /\ calls[p][i].status \in {200, 204}
\* the DELETE of p was answered, and deletePet reported failure
ClaimLost(p) ==
  \E i \in CallsOf(p, "delete_pet") :
    calls[p][i].outcome # "transport_error" /\ calls[p][i].status \notin {200, 204}

RecordsOf(p) == {i \in 1..Len(ledger) : ledger[i].purchaser = p}

\* ids of the pet types of store s whose name is tname, ignoring case
TypeIdsNamed(s, tname) ==
  {petTypes[s][i].id : i \in {j \in 1..Len(petTypes[s]) :
                                Lower(petTypes[s][j].type) = Lower(tname)}}

\* names of the pets store s held under type tname when the sale opened that
\* answer to `name`, ignoring case: those still there and those removed since
StockAnswering(s, tname, name) ==
  {pets[s][i].name : i \in {j \in 1..Len(pets[s]) :
       /\ pets[s][j].pet_type_id \in TypeIdsNamed(s, tname)
       /\ Lower(pets[s][j].name) = Lower(name)}}
  \cup {r.name : r \in {x \in removed :
       /\ x.store = s
       /\ x.pet_type_id \in TypeIdsNamed(s, tname)
       /\ Lower(x.name) = Lower(name)}}

\* p and q are pinned to the same store and the same exact pet name
SamePinnedPet(p, q) ==
  /\ p # q
  /\ Done(p) /\ Done(q)
  /\ request[p].store # None /\ request[p].store = request[q].store
  /\ request[p].pet_name # None /\ request[p].pet_name = request[q].pet_name
  /\ Lower(request[p].pet_type) = Lower(request[q].pet_type)

\* ... and that name answers to one pet of the store, and no call was disturbed
RaceForOnePet(p, q) ==
  /\ SamePinnedPet(p, q)
  /\ Undisturbed(p) /\ Undisturbed(q)
  /\ Cardinality(StockAnswering(request[p].store[1], request[p].pet_type,
                                request[p].pet_name[1])) = 1

\* ------------------------------------------------------------------ claims

\* C1: two purchases pinned to the same store and exact name, racing for the
\* single pet that answers to it with every call served: exactly one ends in
\* 201 with one ledger record, the other in "no pet available".
C1_RaceExactlyOne ==
  \A p, q \in Purchasers :
    RaceForOnePet(p, q) =>
      /\ Completed(p) # Completed(q)
      /\ Refused(p) # Refused(q)
      /\ Completed(p) => Refused(q)
      /\ Cardinality(RecordsOf(p) \cup RecordsOf(q)) = 1

C1_Witness ==
  \E p, q \in Purchasers :
    /\ RaceForOnePet(p, q)
    /\ Completed(p) /\ Refused(q)
    /\ ClaimLost(q)

\* C2: no double-sell: the ledger never holds more records than pets were
\* removed from the inventories, and no two completed purchases name the
\* same (store, pet type, pet name).
C2_NoDoubleSell ==
  /\ Len(ledger) <= Cardinality(removed)
  /\ Cardinality({p \in Purchasers : Completed(p)}) <= Cardinality(removed)
  /\ \A p, q \in Purchasers :
       (p # q /\ Completed(p) /\ Completed(q)) =>
         ~ /\ response[p].store = response[q].store
           /\ Lower(response[p].pet_type) = Lower(response[q].pet_type)
           /\ response[p].pet_name = response[q].pet_name

\* names of the pets store s held under type id when the sale opened that
\* answer to `name`, ignoring case
StockAnsweringId(s, id, name) ==
  {pets[s][i].name : i \in {j \in 1..Len(pets[s]) :
       pets[s][j].pet_type_id = id /\ Lower(pets[s][j].name) = Lower(name)}}
  \cup {r.name : r \in {x \in removed :
       x.store = s /\ x.pet_type_id = id /\ Lower(x.name) = Lower(name)}}

\* calls i of p and j of q are DELETEs of the same pet type id and pet name,
\* both served by the same store, which holds one pet answering to that key
SameDelete(p, i, q, j) ==
  /\ p # q
  /\ calls[p][i].store = calls[q][j].store
  /\ calls[p][i].arg = calls[q][j].arg
  /\ calls[p][i].outcome = "served" /\ calls[q][j].outcome = "served"
  /\ Cardinality(StockAnsweringId(calls[p][i].store, calls[p][i].arg[1],
                                  calls[p][i].arg[2])) = 1

RecordMatches(p, i) ==
  /\ ledger[i].purchaser = request[p].purchaser
  /\ ledger[i].purchaser = response[p].purchaser
  /\ ledger[i].store = response[p].store
  /\ ledger[i].pet_type = response[p].pet_type
  /\ StrOfObjectId(ledger[i]._id) = response[p].purchase_id

\* C4: a purchase that returned 201 has put exactly one record into the
\* ledger, and that record carries the purchaser of the request and the
\* store, pet-type name and purchase-id of the response.
C4_ExactlyOneRecord ==
  \A p \in Purchasers :
    Completed(p) =>
      /\ Cardinality(RecordsOf(p)) = 1
      /\ \A i \in RecordsOf(p) : RecordMatches(p, i)
      /\ \A i, j \in 1..Len(ledger) : ledger[i]._id = ledger[j]._id => i = j

C4_Witness ==
  \E p, q \in Purchasers :
    /\ p # q /\ Completed(p) /\ Completed(q)
    /\ response[p].store # response[q].store
    /\ Len(ledger) = 2

\* C5: a ledger record is written only by a request whose own deletePet call
\* returned success before the write; a request whose deletePet reported
\* failure writes none; the ledger holds at most as many records as deletePet
\* calls of the arbiter succeeded.
C5_RecordOnlyAfterClaim ==
  /\ \A i \in 1..Len(ledger) :
       \E p \in Purchasers :
         /\ ledger[i].purchaser = p
         /\ \E d \in CallsOf(p, "delete_pet"), w \in CallsOf(p, "insert_one") :
              /\ d < w
              /\ calls[p][d].outcome # "transport_error"
              /\ calls[p][d].status \in {200, 204}
  /\ \A p \in Purchasers : (~ClaimWon(p)) => RecordsOf(p) = {} /\ CallsOf(p, "insert_one") = {}
  /\ Len(ledger) <= Cardinality({p \in Purchasers : ClaimWon(p)})

C5_Witness ==
  \E p, q \in Purchasers :
    /\ ClaimWon(p) /\ RecordsOf(p) # {}
    /\ ClaimLost(q) /\ Done(q) /\ RecordsOf(q) = {}

\* a pet of the type p asked for is in a store p could have turned to
StillAvailable(p) ==
  \E s \in Stores :
    /\ (request[p].store = None \/ request[p].store = Some(s))
    /\ \E i \in 1..Len(pets[s]) : pets[s][i].pet_type_id \in TypeIdsNamed(s, request[p].pet_type)

\* C6: a purchase makes at most one deletePet call, and once that call has
\* reported failure it makes no further call and ends in "no pet available",
\* also when another pet of the type is still to be had.
C6_NoRetryNoSubstitute ==
  \A p \in Purchasers :
    /\ Cardinality(CallsOf(p, "delete_pet")) <= 1
    /\ ClaimLost(p) =>
         /\ Refused(p)
         /\ \A d \in CallsOf(p, "delete_pet") : d = Len(calls[p])

C6_Witness ==
  \E p \in Purchasers :
    /\ ClaimLost(p) /\ Refused(p)
    /\ StillAvailable(p)
    /\ \E d \in CallsOf(p, "delete_pet") : calls[p][d].status = 404

\* no deletePet call has returned success so far
EveryClaimFails == \A p \in Purchasers : ~ClaimWon(p)
\* p's request was well-formed and none of its calls raised
Answered(p) ==
  /\ Done(p)
  /\ response[p] \notin {MalformedData, UnsupportedMediaType}
  /\ \A i \in 1..Len(calls[p]) : calls[p][i].outcome # "transport_error"

C8_OnlyLedgerFailureIs500 ==
  \A p \in Purchasers :
    /\ (\E d \in CallsOf(p, "delete_pet") :
          calls[p][d].outcome = "transport_error") => Refused(p)
    /\ Failed500(p) =>
         /\ calls[p] # <<>>
         /\ calls[p][Len(calls[p])].op = "insert_one"
         /\ calls[p][Len(calls[p])].outcome # "served"

SearchOps == {"get_pet_types", "get_pet", "get_pets_for_type"}

BackInStore(p) ==
  \E r \in removed :
    /\ r.by = p
    /\ \E i \in 1..Len(pets[r.store]) :
         pets[r.store][i].pet_type_id = r.pet_type_id /\ pets[r.store][i].name = r.name

LedgerWriteRaised(p) ==
  \E w \in CallsOf(p, "insert_one") : calls[p][w].outcome # "served"

\* C10: when the ledger write fails after a successful claim, the request ends
\* in a server error, the claimed pet stays removed, the ledger holds no
\* record for it, and the arbiter makes no further call.
C10_ClaimedButUnrecorded ==
  \A p \in Purchasers :
    LedgerWriteRaised(p) =>
      /\ Failed500(p)
      /\ ClaimWon(p)
      /\ \E r \in removed : r.by = p
      /\ ~BackInStore(p)
      /\ RecordsOf(p) = {}
      /\ calls[p][Len(calls[p])].op = "insert_one"
      /\ Cardinality(CallsOf(p, "insert_one")) = 1

C10_Witness ==
  \E p \in Purchasers :
    /\ LedgerWriteRaised(p) /\ Failed500(p)
    /\ \E r \in removed : r.by = p
    /\ ledger = <<>>

\* the states of a purchase request, read off its position in process_purchase
Searching(p) == pc[p] \in {"find_pet_type_id", "get_pet", "get_pets_for_type"}
Claiming(p) == pc[p] = "delete_pet"
Recording(p) == pc[p] = "insert_one"

LastCall(p) == calls[p][Len(calls[p])]

\* one step of purchase p keeps to Searching -> Claiming -> Recording -> Completed
StateOrderStep(p) ==
  /\ (Searching(p)' /\ ~Searching(p)) => pc[p] = "idle"
  /\ (Claiming(p)' /\ ~Claiming(p)) =>
       /\ Searching(p)
       /\ frame[p].pet = None /\ frame'[p].pet # None
       /\ LastCall(p)'.op \in {"get_pet", "get_pets_for_type"}
       /\ LastCall(p)'.status = 200
  /\ (Recording(p)' /\ ~Recording(p)) =>
       /\ Claiming(p)
       /\ LastCall(p)'.op = "delete_pet"
       /\ LastCall(p)'.outcome # "transport_error"
       /\ LastCall(p)'.status \in {200, 204}
  /\ (Completed(p)' /\ ~Completed(p)) =>
       /\ Recording(p)
       /\ LastCall(p)'.op = "insert_one" /\ LastCall(p)'.outcome = "served"
       /\ Len(ledger') = Len(ledger) + 1
  /\ (Refused(p)' /\ ~Refused(p)) =>
       \/ Searching(p) /\ frame[p].pet = None
       \/ /\ Claiming(p)
          /\ LastCall(p)'.op = "delete_pet"
          /\ LastCall(p)'.status \notin {200, 204}
  /\ (Recording(p) \/ Completed(p)) => ~Refused(p)'
  /\ Done(p) => (Done(p)' /\ response'[p] = response[p])

\* C11: every purchase follows the order Searching, Claiming, Recording,
\* Completed: Claiming is entered only with a candidate from the locator,
\* Recording only after a successful claim, Completed only after the ledger
\* write returned, and "no pet available" only from Searching or Claiming.
C11_StateOrder == [][\A p \in Purchasers : StateOrderStep(p)]_vars

C11_Witness ==
  \E p, q \in Purchasers :
    /\ Completed(p)
    /\ [i \in 1..Len(calls[p]) |-> calls[p][i].op] =
         <<"get_pet_types", "get_pets_for_type", "delete_pet", "insert_one">>
    /\ Refused(q)
    /\ LastCall(q).op = "get_pets_for_type"

\* p names a target store and an exact pet name
PinnedNamed(p) == TruthyInt(request[p].store) /\ TruthyStr(request[p].pet_name)

\* store s holds a pet of type tname (ignoring case) whose name is exactly name
HoldsExactly(s, tname, name) ==
  \E i \in 1..Len(pets[s]) :
    pets[s][i].pet_type_id \in TypeIdsNamed(s, tname) /\ pets[s][i].name = name

StoreCalls(p) == {i \in 1..Len(calls[p]) : calls[p][i].op # "insert_one"}

\* the claim attempts of a pinned and named purchase, and where its calls go
SingleClaimAt(p) ==
  /\ Cardinality(CallsOf(p, "delete_pet")) <= 1
  /\ \A i \in StoreCalls(p) : calls[p][i].store = request[p].store[1]
  /\ (\E i \in CallsOf(p, "get_pet") : calls[p][i].status = 200) =>
       (Claiming(p) \/ Cardinality(CallsOf(p, "delete_pet")) = 1)
  /\ (\E i \in CallsOf(p, "get_pet") : calls[p][i].status # 200) =>
       CallsOf(p, "delete_pet") = {}

\* the lookups of the named pet, answered by the store that holds it, lead
\* to the claim of it in that store
NamedLookupStep(p) ==
  LET s == request[p].store[1]
  IN /\ (pc[p] = "find_pet_type_id" /\ pc'[p] # pc[p]
           /\ LastCall(p)'.outcome = "served"
           /\ TypeIdsNamed(s, request[p].pet_type) # {}) => pc'[p] = "get_pet"
     /\ (pc[p] = "get_pet" /\ pc'[p] # pc[p]
           /\ LastCall(p)'.outcome = "served"
           /\ HoldsExactly(s, request[p].pet_type, request[p].pet_name[1])) =>
          /\ Claiming(p)'
          /\ LastCall(p)'.status = 200
          /\ frame'[p].pet[1].store = s
     /\ (Claiming(p) /\ ~Claiming(p)') =>
          /\ Cardinality(CallsOf(p, "delete_pet")') = 1
          /\ LastCall(p)'.op = "delete_pet" /\ LastCall(p)'.store = s

\* C12: a purchase that names a target store and an exact pet name which the
\* store holds under the requested type, and whose lookups the store answers,
\* makes exactly one deletePet call, to that store, and no call of any kind
\* to the other store.
C12_PinnedSingleClaim ==
  [][\A p \in Purchasers :
       PinnedNamed(p) => (NamedLookupStep(p) /\ SingleClaimAt(p)')]_vars

C12_Witness ==
  \E p \in Purchasers :
    /\ Done(p) /\ PinnedNamed(p) /\ request[p].store = Some(2)
    /\ [i \in 1..Len(calls[p]) |-> calls[p][i].op] =
         <<"get_pet_types", "get_pet", "delete_pet", "insert_one">>
    /\ \A i \in StoreCalls(p) : calls[p][i].store = 2
    /\ pets[1] # <<>>

\* p asked for a pet of some type and named no store
Unpinned(p) == request[p] # NoRequest /\ ~TruthyInt(request[p].store)

\* the store the locator of p is probing
Probing(p) == Head(frame[p].stores_to_check)

\* names of the pets store s holds under type tname (ignoring case)
HeldNames(s, tname) ==
  {pets[s][i].name : i \in {j \in 1..Len(pets[s]) :
       pets[s][j].pet_type_id \in TypeIdsNamed(s, tname)}}

\* where the calls of p went so far: to the target store only, else to store
\* 1 first and to store 2 after it, and the claim to the store probed last
ProbeOrder(p) ==
  /\ TruthyInt(request[p].store) =>
       \A i \in StoreCalls(p) : calls[p][i].store = request[p].store[1]
  /\ Unpinned(p) =>
       /\ calls[p] # <<>> => calls[p][1].store = 1
       /\ \A i, j \in StoreCalls(p) : i < j => calls[p][i].store <= calls[p][j].store
  /\ \A d \in CallsOf(p, "delete_pet") :
       /\ d > 1
       /\ calls[p][d - 1].op \in {"get_pet", "get_pets_for_type"}
       /\ calls[p][d - 1].store = calls[p][d].store
       /\ \A i \in StoreCalls(p) : i <= d
  /\ Completed(p) =>
       \E d \in CallsOf(p, "delete_pet") : calls[p][d].store = response[p].store

\* one step of the locator of p
ProbeStep(p) ==
  /\ (Searching(p) /\ Searching(p)' /\ Probing(p)' # Probing(p)) =>
       /\ Unpinned(p) /\ Probing(p) = 1 /\ Probing(p)' = 2
       /\ LastCall(p)'.store = 1
       /\ \/ LastCall(p)'.status # 200
          \/ LastCall(p)'.op = "get_pet_types" /\ TypeIdsNamed(1, request[p].pet_type) = {}
          \/ LastCall(p)'.op = "get_pets_for_type" /\ HeldNames(1, request[p].pet_type) = {}
  /\ (Unpinned(p) /\ pc[p] = "get_pets_for_type" /\ pc'[p] # pc[p]
        /\ Probing(p) = 1 /\ LastCall(p)'.outcome = "served"
        /\ HeldNames(1, request[p].pet_type) # {}) =>
       /\ Claiming(p)'
       /\ frame'[p].pet[1].store = 1
       /\ frame'[p].pet[1].name \in HeldNames(1, request[p].pet_type)
       /\ \A i \in 1..Len(calls'[p]) : calls'[p][i].store = 1

\* C13: the locator probes the target store alone when one is given, else
\* store 1 and then store 2, and stops at the first store with a candidate:
\* when store 1 answers and lists a pet of the requested type, an unpinned
\* request gets a pet of store 1 and store 2 is never queried.
C13_ProbeOrder ==
  [][\A p \in Purchasers : ProbeStep(p) /\ ProbeOrder(p)']_vars

C13_Witness ==
  \E p, q \in Purchasers :
    /\ Unpinned(p) /\ Completed(p) /\ response[p].store = 1
    /\ \A i \in StoreCalls(p) : calls[p][i].store = 1
    /\ Unpinned(q) /\ Completed(q) /\ response[q].store = 2
    /\ calls[q][1].store = 1

\* p names a target store and no pet name
PinnedUnnamed(p) == TruthyInt(request[p].store) /\ ~TruthyStr(request[p].pet_name)

\* the pet p is given is one its store listed for the type when p chose
ListedPetStep(p) ==
  LET s == request[p].store[1]
  IN /\ (pc[p] = "get_pets_for_type" /\ pc'[p] # pc[p]
           /\ LastCall(p)'.outcome = "served"
           /\ HeldNames(s, request[p].pet_type) # {}) => Claiming(p)'
     /\ (Claiming(p)' /\ ~Claiming(p)) =>
          /\ LastCall(p)'.op = "get_pets_for_type" /\ LastCall(p)'.store = s
          /\ frame'[p].pet[1].store = s
          /\ frame'[p].pet[1].pet_type_id \in TypeIdsNamed(s, request[p].pet_type)
          /\ frame'[p].pet[1].name \in HeldNames(s, request[p].pet_type)
     /\ (pc[p] \in {"delete_pet", "insert_one"} /\ pc'[p] \in {"delete_pet", "insert_one"}) =>
          frame'[p].pet = frame[p].pet
     /\ (Completed(p)' /\ ~Completed(p)) =>
          /\ response'[p].store = s
          /\ response'[p].pet_name = frame[p].pet[1].name
          /\ Lower(response'[p].pet_type) = Lower(request[p].pet_type)

\* C14: a purchase with a target store and no pet name, whose store lists at
\* least one pet of the requested type, is given one of the pets that store
\* listed for that type when the choice was made, never a pet of another type
\* or of the other store.
C14_ListedPet ==
  [][\A p \in Purchasers : PinnedUnnamed(p) => ListedPetStep(p)]_vars

C14_Witness ==
  \E p \in Purchasers :
    /\ PinnedUnnamed(p) /\ Completed(p) /\ request[p].store = Some(2)
    /\ \E r \in removed : r.by = p /\ r.store = 2 /\ r.pet_type_id = "p2"
                           /\ r.name = response[p].pet_name
    /\ \E i \in 1..Len(pets[2]) : pets[2][i].pet_type_id = "c2"

\* what the stores held when the sale opened: what they hold and what was sold
StockOf(s) ==
  {[store |-> s, pet_type_id |-> pets[s][i].pet_type_id, name |-> pets[s][i].name] :
     i \in 1..Len(pets[s])}
OpeningStock ==
  UNION {StockOf(s) : s \in Stores}
  \cup {[store |-> r.store, pet_type_id |-> r.pet_type_id, name |-> r.name] : r \in removed}

\* store 1 held type Poodle with the single pet Jamie, store 2 held no pet
JamieOnly == OpeningStock = {[store |-> 1, pet_type_id |-> "p1", name |-> "Jamie"]}

\* p asked for a pet of a type, with no store and no name, and every call it
\* made was served
PlainRequest(p) == Done(p) /\ Unpinned(p) /\ Undisturbed(p)

SoldJamie(p) ==
  /\ Completed(p)
  /\ response[p].store = 1 /\ response[p].pet_name = "Jamie"
  /\ response[p].pet_type = request[p].pet_type

\* the scenario: the first request is sold Jamie of store 1, the next is refused
DepletionScenario ==
  JamieOnly =>
    /\ \A p \in Purchasers :
         (PlainRequest(p) /\ \A q \in Purchasers \ {p} : pc[q] = "idle") => SoldJamie(p)
    /\ \A p, q \in Purchasers :
         (p # q /\ PlainRequest(p) /\ PlainRequest(q)) =>
           \/ SoldJamie(p) /\ response[q] = NoPetAvailable
           \/ SoldJamie(q) /\ response[p] = NoPetAvailable

\* a pet that was sold is not sold again
NeverSoldAgain ==
  \A p, q \in Purchasers :
    (p # q /\ Completed(p) /\ Completed(q)) =>
      ~ /\ response[p].store = response[q].store
        /\ Lower(response[p].pet_type) = Lower(response[q].pet_type)
        /\ response[p].pet_name = response[q].pet_name

\* a request with no pet name succeeds when a store it probes holds a pet of
\* the type and every call is served
SucceedsWhileStocked ==
  \A p \in Purchasers :
    (Done(p) /\ request[p] # NoRequest /\ ~TruthyStr(request[p].pet_name)
       /\ Undisturbed(p) /\ StillAvailable(p)) => Completed(p)

\* C15: sequential depletion.  With Jamie of store 1 the only pet, a request
\* for a Poodle run alone is sold Jamie, and the same request after it is
\* answered "No pet of this type is available"; when purchases run one after
\* another and no pets are added, a sold pet is never returned again and a
\* request succeeds while a probed store holds a pet of the type.
C15_SequentialDepletion ==
  /\ DepletionScenario
  /\ NeverSoldAgain
  /\ SucceedsWhileStocked

\* the bodies the order service is to refuse
Malformed(body) ==
  \/ body.content_type # "application/json"
  \/ body.pet_name \notin {None, Some("")} /\ body.store \in {None, Some(0)}
  \/ body.store \notin {None, Some(1), Some(2)}

RejectedUntouched(p) ==
  (Done(p) /\ request[p] = NoRequest) =>
    /\ response[p].status \in 400..499
    /\ response[p] # NoPetAvailable
    /\ calls[p] = <<>>
    /\ RecordsOf(p) = {}
    /\ \A r \in removed : r.by # p

\* C16: every malformed purchase request, one with a pet name and no store or
\* with a store other than 1 and 2 among them, is answered 4xx at once:
\* stores and ledger stay as they are and no call goes to either store.
C16_MalformedRejected ==
  [][\A p \in Purchasers :
       /\ \A body \in PurchaseBodies :
            (Malformed(body) /\ CreatePurchase(p, body)) =>
              /\ Done(p)' /\ response'[p].status \in 400..499
              /\ UNCHANGED <<storeVars, ledger, calls, removed, request>>
       /\ RejectedUntouched(p)']_vars

C16_Witness ==
  \E p, q \in Purchasers :
    /\ response[p] = MalformedData /\ calls[p] = <<>>
    /\ response[q] = UnsupportedMediaType /\ calls[q] = <<>>
    /\ pets[1] # <<>> /\ pets[2] # <<>> /\ ledger = <<>>

\* this step is the handling of the GET /transactions request txreq'
QueryStep == <<txreq, tx, ledgerRead>>' # <<txreq, tx, ledgerRead>>

HeaderWrong(r) == r.ownerpc # Some("LovesPetsL2M3n4")

\* no ledger access in this step
LedgerUntouched == ledger' = ledger /\ ledgerRead' = ledgerRead

\* C17: a GET /transactions request whose OwnerPC header is missing or wrong
\* is answered 401 without any ledger read or write, whatever the ledger
\* holds and whatever filters come with it.
C17_UnauthorizedGate ==
  [][(QueryStep /\ HeaderWrong(txreq')) => (tx' = Unauthorized /\ LedgerUntouched)]_vars

\* what does hold: no ledger access, and 401 when the store filter is a number
UnauthorizedNoAccess ==
  [][(QueryStep /\ HeaderWrong(txreq')) =>
       /\ LedgerUntouched
       /\ tx'.status \in {400, 401, 415}
       /\ txreq'.params # NoNumber => tx' = Unauthorized]_vars

\* r carries the right header and parameters FastAPI can convert
Admitted(r) == r.ownerpc = Some("LovesPetsL2M3n4") /\ r.params # NoNumber

\* ledger record doc matches every filter that params supplies
MatchesAll(doc, params) ==
  /\ params.store # None => params.store[1] = <<"int", doc.store>>
  /\ params.pet_type # None => params.pet_type[1] = doc.pet_type
  /\ params.purchaser # None => params.purchaser[1] = doc.purchaser
  /\ params.purchase_id # None =>
       params.purchase_id[1] \in {<<"oid", doc._id>>, <<"OID", doc._id>>}

\* body lists the records of the ledger that match params, each once
ExactlyTheMatches(body, params) ==
  /\ \A i \in 1..Len(ledger) :
       MatchesAll(ledger[i], params) <=>
         \E j \in 1..Len(body) :
           /\ body[j].purchase_id = <<"oid", ledger[i]._id>>
           /\ body[j].purchaser = ledger[i].purchaser
           /\ body[j].pet_type = ledger[i].pet_type
           /\ body[j].store = ledger[i].store
  /\ Len(body) = Cardinality({i \in 1..Len(ledger) : MatchesAll(ledger[i], params)})
  /\ params = NoParams => Len(body) = Len(ledger)
  /\ params.store = Some(<<"int", 2>>) => \A j \in 1..Len(body) : body[j].store = 2

\* C18: the ledger query returns exactly the stored transactions that match
\* every supplied filter (store, pet-type name, purchaser, transaction id):
\* all of them with no filter, the store-2 records alone with store=2.
C18_QueryFilters ==
  [][(QueryStep /\ Admitted(txreq') /\ txreq'.outcome = "served") =>
       /\ tx'.status = 200
       /\ ExactlyTheMatches(tx'.body, txreq'.params)]_vars

C18_Witness ==
  /\ Len(ledger) = 3
  /\ ledger[2].store = 1 /\ ledger[3].store = 2 /\ ledger[3].purchaser = "Ben"
  /\ txreq.params = [NoParams EXCEPT !.store = Some(<<"int", 2>>)]
  /\ tx.status = 200 /\ Len(tx.body) = 2
  /\ \A j \in 1..Len(tx.body) : tx.body[j].store = 2

\* C19: a ledger query whose transaction-id filter is no identifier returns
\* the empty sequence and no error, whatever its other filters and whatever
\* the ledger holds, and leaves the ledger as it is.
C19_UnparsableId ==
  [][(QueryStep /\ Admitted(txreq') /\ txreq'.params.purchase_id = Some(<<"junk", 0>>)) =>
       /\ tx' = [status |-> 200, body |-> <<>>]
       /\ ledger' = ledger]_vars

C19_Witness ==
  /\ txreq.params = [NoParams EXCEPT !.purchase_id = Some(<<"junk", 0>>),
                                     !.store = Some(<<"int", 2>>)]
  /\ txreq.ownerpc = Some("LovesPetsL2M3n4")
  /\ tx = [status |-> 200, body |-> <<>>]
  /\ \E i \in 1..Len(ledger) : ledger[i].store = 2
  /\ Len(ledger) = 3

\* C20: the ledger is append-only: every record once written stays where it
\* is with its purchaser, pet-type name, store and identifier, under purchases
\* and under queries, and a query leaves the ledger unchanged.
C20_AppendOnly ==
  [][/\ Len(ledger') >= Len(ledger)
     /\ \A i \in 1..Len(ledger) : ledger'[i] = ledger[i]
     /\ \A i, j \in 1..Len(ledger') : ledger'[i]._id = ledger'[j]._id => i = j
     /\ QueryStep => ledger' = ledger]_vars

C20_Witness ==
  /\ Len(ledger) = 3
  /\ ledger[1] = EarlierSale
  /\ ledger[2].purchaser = "Ana"
  /\ ledgerRead /\ tx.status = 200 /\ Len(tx.body) = 3

\* the lookup of the named pet finds one only under the very name asked for
ExactLookupStep(p) ==
  LET s == request[p].store[1]
  IN (pc[p] = "get_pet" /\ pc'[p] # pc[p] /\ LastCall(p)'.outcome = "served"
        /\ ~HoldsExactly(s, request[p].pet_type, request[p].pet_name[1])) =>
       /\ Refused(p)'
       /\ LastCall(p)'.status # 200
       /\ CallsOf(p, "delete_pet")' = {}

\* C21: for a purchase with a target store and an exact pet name the lookup is
\* case-sensitive: a pet is located only when the store holds a pet of the
\* type under exactly the requested name; when it holds only a pet whose name
\* differs in letter case, no candidate is found, nothing is deleted and the
\* request ends in "no pet available".
C21_ExactNameLookup ==
  [][\A p \in Purchasers :
       PinnedNamed(p) =>
         /\ ExactLookupStep(p)
         /\ Completed(p)' => response'[p].pet_name = request[p].pet_name[1]
         /\ (\E r \in removed' : r.by = p) =>
              \E r \in removed' : r.by = p /\ r.name = request[p].pet_name[1]]_vars

\* positions of the types of a listing whose name is `name`, ignoring case
MatchesAt(listing, name) ==
  {i \in 1..Len(listing) : Lower(listing[i].type) = Lower(name)}

\* id is the id of the first type of the listing that is named `name`
FirstMatchId(listing, name, id) ==
  \E i \in MatchesAt(listing, name) :
    /\ listing[i].id = id
    /\ \A j \in MatchesAt(listing, name) : i <= j

\* C22: find_pet_type_id returns the id of the first listed type whose name
\* equals the requested one ignoring letter case, and none when no listed
\* type does, the empty listing included; the locator goes on to the pets of a
\* store under that id and no other.
C22_FirstTypeMatch ==
  /\ \A s \in Stores, name \in AskedTypes :
       LET found == find_pet_type_id(petTypes[s], name)
       IN /\ found = None <=> MatchesAt(petTypes[s], name) = {}
          /\ found # None => FirstMatchId(petTypes[s], name, found[1])
  /\ \A name \in AskedTypes : find_pet_type_id(<<>>, name) = None
  /\ \A p \in Purchasers :
       pc[p] \in {"get_pet", "get_pets_for_type"} =>
         /\ frame[p].pet_type_id # None
         /\ FirstMatchId(petTypes[Probing(p)], request[p].pet_type, frame[p].pet_type_id[1])

C22_Witness ==
  \E p \in Purchasers :
    /\ [i \in 1..Len(petTypes[1]) |-> petTypes[1][i].type] = <<"Poodle", "poodle">>
    /\ request[p].pet_type = "poodle"
    /\ pc[p] = "get_pets_for_type" /\ Probing(p) = 1
    /\ frame[p].pet_type_id = Some("t1")

\* the stores the locator of p is to probe
ProbeList(p) == IF TruthyInt(request[p].store) THEN {request[p].store[1]} ELSE {1, 2}

\* find_available_pet returned none to p
LocatorNone(p) == Refused(p) /\ CallsOf(p, "delete_pet") = {}

\* the pets store s held under pet type id while p searched: those it holds
\* and the one p has claimed since
PetsUnder(s, id) ==
  {pets[s][i].name : i \in {j \in 1..Len(pets[s]) : pets[s][j].pet_type_id = id}}
  \cup {r.name : r \in {x \in removed : x.store = s /\ x.pet_type_id = id}}

\* call i of p was answered and gave no candidate: the type was not found in
\* the store, or the named pet was not found, or the listing of the type
\* was empty
NoCandidateAt(p, i) ==
  LET call == calls[p][i]
  IN /\ call.outcome # "transport_error"
     /\ \/ /\ call.op = "get_pet_types"
           /\ call.status # 200 \/ MatchesAt(petTypes[call.store], request[p].pet_type) = {}
        \/ /\ call.op = "get_pet"
           /\ call.status # 200
        \/ /\ call.op = "get_pets_for_type"
           /\ call.status # 200 \/ PetsUnder(call.store, call.arg[1]) = {}

\* every store of the probe list was probed and gave no candidate
EveryProbeFailed(p) ==
  /\ request[p] # NoRequest
  /\ \A s \in ProbeList(p) :
       \E i \in 1..Len(calls[p]) : calls[p][i].store = s /\ NoCandidateAt(p, i)

\* one step of the locator of p: a store without the type sends it on
MissingTypeStep(p) ==
  (pc[p] = "find_pet_type_id" /\ pc'[p] # "find_pet_type_id" /\ ~Done(p)') =>
     MatchesAt(petTypes[Probing(p)], request[p].pet_type) # {}

LastGaveNone(p) == calls[p] # <<>> /\ NoCandidateAt(p, Len(calls[p]))

OnToNextStore(p) ==
  (/\ Unpinned(p) /\ Searching(p) /\ Probing(p) = 1
   /\ Len(calls'[p]) > Len(calls[p]) /\ LastGaveNone(p)') =>
     /\ pc'[p] = "find_pet_type_id"
     /\ Probing(p)' = 2

\* C23: the locator returns none exactly when every store of its probe list
\* was probed and gave no candidate (type not found, named pet not found, or
\* empty listing), and a store where the type is missing does not end the
\* search: the next store is probed.
C23_NoneIffAllFail ==
  [][\A p \in Purchasers :
       /\ LocatorNone(p)' <=> EveryProbeFailed(p)'
       /\ MissingTypeStep(p)
       /\ OnToNextStore(p)]_vars

C23_Witness ==
  \E p \in Purchasers :
    /\ LocatorNone(p) /\ Undisturbed(p) /\ Unpinned(p)
    /\ request[p].pet_type = "cat"
    /\ MatchesAt(petTypes[1], "cat") = {} /\ petTypes[1] # <<>>
    /\ [i \in 1..Len(calls[p]) |-> <<calls[p][i].op, calls[p][i].store>>] =
         << <<"get_pet_types", 1>>, <<"get_pet_types", 2>>, <<"get_pets_for_type", 2>> >>

\* C24: in one pet-store, under any interleaving of create-pet requests (one
\* that downloads a picture between the duplicate check and the insert
\* included), no two pets of one pet type have names that are equal ignoring
\* letter case.
C24_NoCaseTwins ==
  \A s \in Stores :
    \A i, j \in 1..Len(pets[s]) :
      (/\ pets[s][i].pet_type_id = pets[s][j].pet_type_id
       /\ Lower(pets[s][i].name) = Lower(pets[s][j].name)) => i = j

\* C25: in one pet-store, under any interleaving of create-pet-type requests
\* (each awaits the taxonomy lookup between the existence check and the
\* insert), no two pet types have names that are equal ignoring letter case.
C25_NoCaseTwinTypes ==
  \A s \in Stores :
    \A i, j \in 1..Len(petTypes[s]) :
      Lower(petTypes[s][i].type) = Lower(petTypes[s][j].type) => i = j

\* C26: a pet type is deleted only when it has no pets: every stored pet
\* belongs to a pet type that still exists, also when a delete-pet-type
\* request comes between the type check and the insert of a create-pet
\* request that downloads a picture.
C26_EveryPetHasType ==
  \A s \in Stores :
    \A i \in 1..Len(pets[s]) :
      \E j \in 1..Len(petTypes[s]) : petTypes[s][j].id = pets[s][i].pet_type_id

\* this step is the answer 200 to a PUT that carries a birthdate
UpdateSucceeds ==
  /\ <<sreq, sres>>' # <<sreq, sres>>
  /\ sreq'.op = "update_pet" /\ sres'.status = 200
  /\ sreq'.birthdate # None

\* what GET /pet-types/{id}/pets/{name} and GET /pet-types/{id}/pets answer
\* for the pet of the last request
ReadBack == GetPetHandler(sreq.store, sreq.id, sreq.name)
ListedBack == GetPetsHandler(sreq.store, sreq.id)

\* C27: after update_pet succeeded for a pet with a new birthdate, a get of
\* that pet and a listing of the pets of its type return the new birthdate.
C27_UpdateStored ==
  [][UpdateSucceeds =>
       /\ ReadBack'.status = 200
       /\ ReadBack'.body[1].birthdate = sreq'.birthdate[1]
       /\ \E i \in 1..Len(ListedBack'.body) :
            /\ ListedBack'.body[i].name = sres'.body.name
            /\ ListedBack'.body[i].birthdate = sreq'.birthdate[1]]_vars

\* C28: for every purchase that reached Completed, the pet its request
\* removed from the inventories is the pet of its response: removed from the
\* store of the response, under the pet type named as requested ignoring
\* case, and stored under the returned pet name.
C28_RemovedIsReported ==
  \A p \in Purchasers :
    Completed(p) =>
      /\ \E r \in removed : r.by = p
      /\ \A r \in removed :
           r.by = p =>
             /\ r.store = response[p].store
             /\ r.pet_type_id \in TypeIdsNamed(r.store, request[p].pet_type)
             /\ r.name = response[p].pet_name

\* number of pets in the inventories
StockCount == Len(pets[1]) + Len(pets[2])

RemovedBy(p) == {r \in removed : r.by = p}

\* this step is a step of the request of p
StepOf(p) == pc'[p] # pc[p] \/ calls'[p] # calls[p]

\* what one step of the request of p does to the inventories and the ledger
PurchaseFrame(p) ==
  /\ (StepOf(p) /\ (pc[p] = "idle" \/ Searching(p))) =>
       UNCHANGED <<pets, petTypes, ledger, removed>>
  /\ (StepOf(p) /\ StockCount' # StockCount) =>
       /\ StockCount' = StockCount - 1
       /\ Claiming(p)
       /\ Cardinality(CallsOf(p, "delete_pet")') = 1
       /\ LastCall(p)'.status = 204
  /\ (StepOf(p) /\ ~Claiming(p)) => pets' = pets

\* C29: one purchase request removes at most one pet over all inventories,
\* and none but in its claim; the search only reads, so that a request that
\* ends in "no pet available" because the locator found no candidate has left
\* every inventory and the ledger as they were.
C29_AtMostOneRemoved ==
  [][\A p \in Purchasers :
       /\ PurchaseFrame(p)
       /\ Cardinality(RemovedBy(p)') <= 1
       /\ LocatorNone(p)' => (RemovedBy(p)' = {} /\ RecordsOf(p)' = {})]_vars

C29_Witness ==
  \E p, q \in Purchasers :
    /\ LocatorNone(p) /\ Undisturbed(p) /\ RemovedBy(p) = {}
    /\ Completed(q) /\ Cardinality(RemovedBy(q)) = 1
    /\ StockCount = 1 /\ Len(ledger) = 1
    /\ \E r \in RemovedBy(q) :
         \E i \in 1..Len(pets[r.store]) :
           /\ pets[r.store][i].pet_type_id = r.pet_type_id
           /\ Lower(pets[r.store][i].name) = Lower(r.name)

\* the request of p is between its arrival and its answer
InFlight(p) == pc[p] \notin {"idle", "done"}

Terminal(p) == Completed(p) \/ Refused(p) \/ Failed500(p)

\* the external calls of p so far: at most two type listings, two pet
\* listings or lookups, one delete and one ledger insert
CallBound(p) ==
  /\ Cardinality(CallsOf(p, "get_pet_types")) <= 2
  /\ Cardinality(CallsOf(p, "get_pet") \cup CallsOf(p, "get_pets_for_type")) <= 2
  /\ Cardinality(CallsOf(p, "delete_pet")) <= 1
  /\ Cardinality(CallsOf(p, "insert_one")) <= 1

\* C30: when every external call returns, every purchase request reaches a
\* terminal outcome (Completed, "no pet available" or server error), after at
\* most two type listings, two pet listings or lookups, one delete and one
\* ledger insert.
C30_BoundedTermination ==
  /\ [](\A p \in Purchasers : CallBound(p))
  /\ \A p \in Purchasers : InFlight(p) ~> Terminal(p)

C30_Witness ==
  \E p \in Purchasers :
    /\ Completed(p)
    /\ [i \in 1..Len(calls[p]) |-> <<calls[p][i].op, calls[p][i].store>>] =
         << <<"get_pet_types", 1>>, <<"get_pets_for_type", 1>>, <<"get_pet_types", 2>>,
            <<"get_pets_for_type", 2>>, <<"delete_pet", 2>>, <<"insert_one", 0>> >>

====
